---------------------------- MODULE Spec2Model ----------------------------
(***************************************************************************)
(* A model of orthanc_helper.Server: the three batch operations that fan a *)
(* work list out over worker threads (upload_folder,                       *)
(* date_modality_to_server, date_server_to_local), the date-range wrapper  *)
(* date_range_server_to_local, the sequential operations                   *)
(* delete_all_studies and anon_study_server_to_local, and the pure         *)
(* function inside get_study_details.                                      *)
(*                                                                         *)
(* Strings that the code transforms are sequences of one-character (or     *)
(* one-token) strings, so that rstrip, replace and f-string composition    *)
(* are computed and not assumed.  The remote archive and the local         *)
(* filesystem are the environment: every remote call may succeed, raise or *)
(* never return, and every local open may raise.                           *)
(***************************************************************************)
EXTENDS Integers, Sequences, FiniteSets

VARIABLES
    op,          \* the operation the caller invoked
    fn,          \* the function whose body is executing (op, or its delegate)
    pc,          \* position of the calling thread
    from_date,   \* date_range_server_to_local: from_date argument
    to_date,     \* date_range_server_to_local: to_date argument
    thread_no,   \* date_range_server_to_local: thread_no argument
    date,        \* date parameter of the single-date function
    threads_no,  \* threads_no parameter of the batch function
    query,       \* StudyDate value sent in the query, <<>> before any query
    found,       \* what the environment holds: files under the folder,
                 \* answers of the modality, studies matching the filter
    info,        \* remote study information, by study id
    work,        \* dicom_files / answers / studies_ids / studies
    started,     \* number of threads started (the loop index i)
    joined,      \* number of threads joined
    wlist,       \* per worker: the slice it was given
    wpos,        \* per worker: 1-based position in its slice
    wphase,      \* per worker: which call of the loop body comes next
    wst,         \* per worker: unstarted, running, done, failed, hung
    issued,      \* per item: upload / move / zip calls issued
    completed,   \* per item: upload / move / zip calls that returned
    errors,      \* exceptions raised so far: [thread, kind, item]
    writes,      \* local files opened for writing: [w, path, study]
    report,      \* the count in the final message, -1 before it is printed
    late,        \* a worker took a step after the batch function returned
    studies,     \* study ids held by the server (sequential operations)
    idx,         \* loop position of the sequential operations
    details,     \* anon_study_server_to_local: studies_details
    target_id,   \* anon_study_server_to_local: the selected study
    anon_id,     \* anon_study_server_to_local: id of the anonymized copy
    deletes,     \* sequence of study ids delete_study was called with
    files,       \* local paths that exist
    zipped,      \* study whose zip was written to the anonymized file
    p_name_in,   \* get_study_details: remote PatientName
    time_in,     \* get_study_details: remote StudyTime
    date_in,     \* get_study_details: remote StudyDate
    result       \* get_study_details: returned tuple, <<>> before the call

vars == <<op, fn, pc, from_date, to_date, thread_no, date, threads_no, query,
          found, info, work, started, joined, wlist, wpos, wphase, wst,
          issued, completed, errors, writes, report, late, studies, idx,
          details, target_id, anon_id, deletes, files, zipped, p_name_in,
          time_in, date_in, result>>

batchVars == <<started, joined, wlist, wpos, wphase, wst, issued, completed,
               errors, writes, report, late>>
argVars == <<op, from_date, to_date, thread_no, found, info>>
seqVars == <<studies, idx, details, target_id, anon_id, deletes, files, zipped>>
detailVars == <<p_name_in, time_in, date_in, result>>

-----------------------------------------------------------------------------
(* Bounds *)
MaxItems == 3
MaxThreads == 3
MaxStudies == 2
MaxNameLen == 3

(* Program constants *)
DefaultThreads == 2

Dates == {"20240101", "20240102"}
Times == {"101500", "113000"}
Sep == "^"
Names == {<<"A", Sep, "B">>, <<"A", Sep, "B", Sep>>}
download_path == "downloads"

Workers == 0 .. (MaxThreads - 1)
Items == (0 .. MaxItems) \cup (0 .. MaxStudies)
Terminated == {"done", "failed"}
MAIN == MaxThreads

-----------------------------------------------------------------------------
(* Pure functions *)

\* drops one trailing separator at most
rstrip_once(s) ==
    IF s # <<>> /\ s[Len(s)] = Sep THEN SubSeq(s, 1, Len(s) - 1) ELSE s

\* s.rstrip("^"): drop every trailing separator
RECURSIVE rstrip(_)
rstrip(s) ==
    IF s # <<>> /\ s[Len(s)] = Sep THEN rstrip(SubSeq(s, 1, Len(s) - 1)) ELSE s

\* s.replace("^", "_"): replace every separator
replace(s) == [j \in 1 .. Len(s) |-> IF s[j] = Sep THEN "_" ELSE s[j]]

normalize_name(p_name) == replace(rstrip(p_name))

\* get_study_details on a study information record
get_study_details(study_info) ==
    <<normalize_name(study_info.PatientName), study_info.StudyTime,
      study_info.StudyDate>>

\* a slice that starts one position late
SliceFromNext(lst, i, n) ==
    [j \in 1 .. ((Len(lst) - (i + 1) + n - 1) \div n) |->
        lst[(i + 1) + (j - 1) * n + 1]]

\* lst[i::n] for i >= 0, n >= 1
Slice(lst, i, n) ==
    [j \in 1 .. ((Len(lst) - i + n - 1) \div n) |-> lst[i + (j - 1) * n + 1]]

\* f"{from_date}-{to_date}"
ComposeRange(a, b) == <<a, "-", b>>

\* os.path.join(download_path, f"{p_name}_{study_time}.zip")
ZipPath(p_name, study_time) ==
    <<download_path, "/">> \o p_name \o <<"_", study_time, ".zip">>

\* the thread count the range wrapper hands to date_server_to_local
RangeThreads(n) == DefaultThreads

Range(s) == {s[j] : j \in DOMAIN s}
Bump(f, x) == [f EXCEPT ![x] = @ + 1]


-----------------------------------------------------------------------------
(* Placeholders for the variables an operation does not use *)

NoWorkers ==
    /\ started = 0 /\ joined = 0
    /\ wlist = [w \in Workers |-> <<>>]
    /\ wpos = [w \in Workers |-> 1]
    /\ wphase = [w \in Workers |-> "none"]
    /\ wst = [w \in Workers |-> "unstarted"]
    /\ issued = [x \in Items |-> 0]
    /\ completed = [x \in Items |-> 0]
    /\ errors = {} /\ writes = {} /\ report = -1 /\ late = FALSE
    /\ work = <<>> /\ query = <<>>

NoRange == from_date = "" /\ to_date = "" /\ thread_no = 0
NoSeq ==
    /\ studies = {} /\ idx = 0 /\ details = <<>> /\ target_id = 0
    /\ anon_id = 0 /\ deletes = <<>> /\ files = {} /\ zipped = 0
NoDetails == p_name_in = <<>> /\ time_in = "" /\ date_in = "" /\ result = <<>>

-----------------------------------------------------------------------------
(* The batch operations *)

BatchFns == {"upload_folder", "date_modality_to_server", "date_server_to_local"}

StudyInfos ==
    [PatientName : Names, StudyTime : Times, StudyDate : {"20240101"}]

\* The caller's invocation: the operation, its arguments, and what the
\* environment holds for it.
InitBatch ==
    /\ op \in BatchFns \cup {"date_range_server_to_local"}
    /\ fn = op /\ pc = "call"
    /\ IF op \in {"date_server_to_local", "date_range_server_to_local"}
       THEN \E k \in 0 .. MaxStudies :
               /\ found = [j \in 1 .. k |-> j]
               /\ info \in [1 .. k -> StudyInfos]
       ELSE \E k \in 0 .. MaxItems :
               /\ found = IF op = "date_modality_to_server"
                          THEN [j \in 1 .. k |-> j - 1]
                          ELSE [j \in 1 .. k |-> j]
               /\ info = <<>>
    /\ IF op = "date_range_server_to_local"
       THEN /\ from_date \in Dates /\ to_date \in Dates
            /\ thread_no \in 1 .. MaxThreads
            /\ date = <<>> /\ threads_no = 0
       ELSE /\ NoRange
            /\ threads_no \in 1 .. MaxThreads
            /\ date \in IF op = "upload_folder" THEN {<<>>}
                        ELSE {<<d>> : d \in Dates}
    /\ NoWorkers /\ NoSeq /\ NoDetails

\* upload_folder: the os.walk loop collecting every file under folder_path
upload_folder_walk ==
    /\ fn = "upload_folder" /\ pc = "call"
    /\ work' = found
    /\ pc' = "start"
    /\ UNCHANGED <<argVars, fn, date, threads_no, query, batchVars, seqVars,
                   detailVars>>

\* date_modality_to_server: query_on_modality and get_query_answers
date_modality_to_server_query ==
    /\ fn = "date_modality_to_server" /\ pc = "call"
    /\ query' = date
    /\ \/ /\ work' = found /\ pc' = "start" /\ errors' = errors
       \/ /\ work' = work /\ pc' = "raised"
          /\ errors' = errors \cup {[thread |-> MAIN, kind |-> "query", item |-> 0]}
    /\ UNCHANGED <<argVars, fn, date, threads_no, started, joined, wlist, wpos,
                   wphase, wst, issued, completed, writes, report, late,
                   seqVars, detailVars>>

\* date_server_to_local: c_find with the StudyDate filter
date_server_to_local_find ==
    /\ fn = "date_server_to_local" /\ pc = "call"
    /\ query' = date
    /\ \/ /\ work' = found /\ pc' = "start" /\ errors' = errors
       \/ /\ work' = work /\ pc' = "raised"
          /\ errors' = errors \cup {[thread |-> MAIN, kind |-> "c_find", item |-> 0]}
    /\ UNCHANGED <<argVars, fn, date, threads_no, started, joined, wlist, wpos,
                   wphase, wst, issued, completed, writes, report, late,
                   seqVars, detailVars>>

\* date_range_server_to_local: the call of date_server_to_local
date_range_server_to_local_call ==
    /\ fn = "date_range_server_to_local" /\ pc = "call"
    /\ date' = ComposeRange(from_date, to_date)
    /\ threads_no' = RangeThreads(thread_no)
    /\ fn' = "date_server_to_local"
    /\ UNCHANGED <<argVars, pc, query, work, batchVars, seqVars, detailVars>>

\* date_range_server_to_local: the final message, after the callee returned
date_range_server_to_local_finish ==
    /\ op = "date_range_server_to_local" /\ fn = "date_server_to_local"
    /\ pc = "returned"
    /\ fn' = op
    /\ UNCHANGED <<argVars, pc, date, threads_no, query, work, batchVars,
                   seqVars, detailVars>>

FirstPhase ==
    CASE fn = "upload_folder" -> "post"
      [] fn = "date_modality_to_server" -> "content"
      [] OTHER -> "details"

\* for i in range(threads_no): slice, Thread(...).start(), append
StartThread ==
    /\ fn \in BatchFns /\ pc = "start" /\ started < threads_no
    /\ wlist' = [wlist EXCEPT ![started] = Slice(work, started, threads_no)]
    /\ wst' = [wst EXCEPT ![started] = "running"]
    /\ wphase' = [wphase EXCEPT ![started] = FirstPhase]
    /\ started' = started + 1
    /\ pc' = IF started + 1 = threads_no THEN "join" ELSE "start"
    /\ UNCHANGED <<argVars, fn, date, threads_no, query, work, joined, wpos,
                   issued, completed, errors, writes, report, late, seqVars,
                   detailVars>>

\* a join that does not wait for the thread to end
JoinableNoWait(w) == wst[w] # "unstarted"

\* thread.join() returns once the thread has ended, normally or by an
\* uncaught exception
Joinable(w) == wst[w] \in Terminated

\* for thread in threads: thread.join()
JoinThread ==
    /\ fn \in BatchFns /\ pc = "join" /\ joined < threads_no
    /\ Joinable(joined)
    /\ joined' = joined + 1
    /\ UNCHANGED <<argVars, fn, pc, date, threads_no, query, work, started,
                   wlist, wpos, wphase, wst, issued, completed, errors, writes,
                   report, late, seqVars, detailVars>>

\* the count the final message prints
ReportedTotal == Len(work)

\* the final print of the batch function, and its return
Report ==
    /\ fn \in BatchFns /\ pc = "join" /\ joined = threads_no
    /\ report' = ReportedTotal
    /\ pc' = "returned"
    /\ UNCHANGED <<argVars, fn, date, threads_no, query, work, started, joined,
                   wlist, wpos, wphase, wst, issued, completed, errors, writes,
                   late, seqVars, detailVars>>

-----------------------------------------------------------------------------
(* The worker threads *)

Current(w) == wlist[w][wpos[w]]
Busy(w) == wst[w] = "running" /\ wpos[w] <= Len(wlist[w])
Fail(w, k) == errors \cup {[thread |-> w, kind |-> k, item |-> Current(w)]}
WorkerFrame == UNCHANGED <<argVars, fn, pc, date, threads_no, query, work,
                           started, joined, wlist, report, studies, idx,
                           details, target_id, anon_id, deletes, zipped,
                           detailVars>>

\* the loop of a worker has no item left: the thread ends
WorkerExit(w) ==
    /\ wst[w] = "running" /\ wpos[w] > Len(wlist[w])
    /\ wst' = [wst EXCEPT ![w] = "done"]
    /\ late' = (late \/ pc = "returned")
    /\ UNCHANGED <<wpos, wphase, issued, completed, errors, writes>>
    /\ UNCHANGED files
    /\ WorkerFrame

\* upload_instances: open and read the file, post_instances, print
upload_instances(w) ==
    /\ fn = "upload_folder" /\ Busy(w)
    /\ late' = (late \/ pc = "returned")
    /\ \/ /\ issued' = Bump(issued, Current(w))
          /\ completed' = Bump(completed, Current(w))
          /\ wpos' = [wpos EXCEPT ![w] = @ + 1]
          /\ UNCHANGED <<wst, errors>>
       \/ /\ errors' = Fail(w, "io")
          /\ wst' = [wst EXCEPT ![w] = "failed"]
          /\ UNCHANGED <<issued, completed, wpos>>
       \/ /\ issued' = Bump(issued, Current(w))
          /\ errors' = Fail(w, "http")
          /\ wst' = [wst EXCEPT ![w] = "failed"]
          /\ UNCHANGED <<completed, wpos>>
       \/ /\ issued' = Bump(issued, Current(w))
          /\ wst' = [wst EXCEPT ![w] = "hung"]
          /\ UNCHANGED <<completed, wpos, errors>>
    /\ UNCHANGED <<wphase, writes>>
    /\ UNCHANGED files
    /\ WorkerFrame

\* download_answer: get_content_of_specified_query_answer, print
download_answer_content(w) ==
    /\ fn = "date_modality_to_server" /\ Busy(w) /\ wphase[w] = "content"
    /\ late' = (late \/ pc = "returned")
    /\ \/ /\ wphase' = [wphase EXCEPT ![w] = "move"]
          /\ UNCHANGED <<wst, errors>>
       \/ /\ errors' = Fail(w, "content")
          /\ wst' = [wst EXCEPT ![w] = "failed"]
          /\ UNCHANGED wphase
       \/ /\ wst' = [wst EXCEPT ![w] = "hung"]
          /\ UNCHANGED <<wphase, errors>>
    /\ UNCHANGED <<wpos, issued, completed, writes>>
    /\ UNCHANGED files
    /\ WorkerFrame

\* what an unreachable target AE does to the worker that asked for the move:
\* the exception is not caught, so the thread ends
AfterUnreachable(w) == [wst EXCEPT ![w] = "failed"]

\* download_answer: send_resource_to_other_modality
download_answer_move(w) ==
    /\ fn = "date_modality_to_server" /\ Busy(w) /\ wphase[w] = "move"
    /\ late' = (late \/ pc = "returned")
    /\ issued' = Bump(issued, Current(w))
    /\ \/ /\ completed' = Bump(completed, Current(w))
          /\ wpos' = [wpos EXCEPT ![w] = @ + 1]
          /\ wphase' = [wphase EXCEPT ![w] = "content"]
          /\ UNCHANGED <<wst, errors>>
       \/ /\ errors' = Fail(w, "unreachable")
          /\ wst' = AfterUnreachable(w)
          /\ UNCHANGED <<completed, wpos, wphase>>
       \/ /\ wst' = [wst EXCEPT ![w] = "hung"]
          /\ UNCHANGED <<completed, wpos, wphase, errors>>
    /\ UNCHANGED writes
    /\ UNCHANGED files
    /\ WorkerFrame

\* file_path of a study, from its remote information
FilePath(study_id) ==
    LET d == get_study_details(info[study_id]) IN ZipPath(d[1], d[2])

\* download_studies: get_study_details, print, open(file_path, 'wb')
download_studies_open(w) ==
    /\ fn = "date_server_to_local" /\ Busy(w) /\ wphase[w] = "details"
    /\ late' = (late \/ pc = "returned")
    /\ \/ /\ writes' = writes \cup {[w |-> w, path |-> FilePath(Current(w)),
                                     study |-> Current(w)]}
          /\ files' = files \cup {FilePath(Current(w))}
          /\ wphase' = [wphase EXCEPT ![w] = "zip"]
          /\ UNCHANGED <<wst, errors>>
       \/ /\ \E k \in {"details", "io"} : errors' = Fail(w, k)
          /\ wst' = [wst EXCEPT ![w] = "failed"]
          /\ UNCHANGED <<wphase, writes, files>>
       \/ /\ wst' = [wst EXCEPT ![w] = "hung"]
          /\ UNCHANGED <<wphase, errors, writes, files>>
    /\ UNCHANGED <<wpos, issued, completed>>
    /\ WorkerFrame

\* download_studies: get_study_zip_file, write, close
download_studies_zip(w) ==
    /\ fn = "date_server_to_local" /\ Busy(w) /\ wphase[w] = "zip"
    /\ late' = (late \/ pc = "returned")
    /\ issued' = Bump(issued, Current(w))
    /\ \/ /\ completed' = Bump(completed, Current(w))
          /\ wpos' = [wpos EXCEPT ![w] = @ + 1]
          /\ wphase' = [wphase EXCEPT ![w] = "details"]
          /\ UNCHANGED <<wst, errors>>
       \/ /\ errors' = Fail(w, "zip")
          /\ wst' = [wst EXCEPT ![w] = "failed"]
          /\ UNCHANGED <<completed, wpos, wphase>>
       \/ /\ wst' = [wst EXCEPT ![w] = "hung"]
          /\ UNCHANGED <<completed, wpos, wphase, errors>>
    /\ UNCHANGED writes
    /\ UNCHANGED files
    /\ WorkerFrame

Worker(w) ==
    \/ WorkerExit(w)
    \/ upload_instances(w)
    \/ download_answer_content(w)
    \/ download_answer_move(w)
    \/ download_studies_open(w)
    \/ download_studies_zip(w)

Next ==
    \/ upload_folder_walk
    \/ date_modality_to_server_query
    \/ date_server_to_local_find
    \/ date_range_server_to_local_call
    \/ date_range_server_to_local_finish
    \/ StartThread
    \/ JoinThread
    \/ Report
    \/ \E w \in Workers : Worker(w)

Spec == InitBatch /\ [][Next]_vars

-----------------------------------------------------------------------------
(* The sequential operations *)

Perms(S) ==
    {q \in [1 .. Cardinality(S) -> S] :
        \A a, b \in DOMAIN q : a # b => q[a] # q[b]}

\* lst[choice] with Python's indexing: negative indexes count from the end,
\* an index outside -len .. len-1 raises IndexError (0 here: ids are positive)
Index(lst, choice) ==
    IF 0 <= choice /\ choice < Len(lst) THEN lst[choice + 1]
    ELSE IF choice < 0 /\ 0 - choice <= Len(lst) THEN lst[Len(lst) + choice + 1]
    ELSE 0

Choices == (0 - (MaxStudies + 1)) .. (MaxStudies + 1)

\* os.path.join(download_path, "Anonymized_patient")
AnonPath == <<download_path, "/", "Anonymized_patient">>

\* The server's studies, their information, and what the server answers to
\* get_studies (every study) or to c_find (the studies matching the name).
InitSeq ==
    /\ op \in {"delete_all_studies", "anon_study_server_to_local"}
    /\ fn = op /\ pc = "call"
    /\ \E m \in 0 .. MaxStudies :
          /\ studies = 1 .. m
          /\ info \in [1 .. m -> StudyInfos]
    /\ found \in IF op = "delete_all_studies" THEN Perms(studies)
                 ELSE UNION {Perms(S) : S \in SUBSET studies}
    /\ NoRange /\ date = <<>> /\ threads_no = 0
    /\ NoWorkers /\ NoDetails
    /\ idx = 0 /\ details = <<>> /\ target_id = 0 /\ anon_id = 0
    /\ deletes = <<>> /\ files = {} /\ zipped = 0

SeqFrame == UNCHANGED <<argVars, fn, date, threads_no, query, started, joined,
                        wlist, wpos, wphase, wst, issued, completed, writes,
                        late, detailVars>>
Raise(k, x) == errors \cup {[thread |-> MAIN, kind |-> k, item |-> x]}

\* delete_all_studies: the prompt, get_studies, to_delete = len(studies)
delete_all_studies_list ==
    /\ fn = "delete_all_studies" /\ pc = "call"
    /\ \/ /\ work' = found /\ idx' = 1 /\ report' = Len(found)
          /\ pc' = "loop" /\ errors' = errors
       \/ /\ pc' = "raised" /\ errors' = Raise("get_studies", 0)
          /\ UNCHANGED <<work, idx, report>>
    /\ UNCHANGED <<studies, details, target_id, anon_id, deletes, files, zipped>>
    /\ SeqFrame

\* a loop that deletes the first study again and again
DeleteFirst(lst, i) == lst[1]

\* the study the loop of delete_all_studies deletes at position i
DeleteTarget(lst, i) == lst[i]

\* delete_all_studies: one iteration of the loop
delete_all_studies_delete ==
    /\ fn = "delete_all_studies" /\ pc = "loop" /\ idx <= Len(work)
    /\ deletes' = Append(deletes, DeleteTarget(work, idx))
    /\ \/ /\ studies' = studies \ {DeleteTarget(work, idx)}
          /\ report' = report - 1
          /\ idx' = idx + 1
          /\ UNCHANGED <<pc, errors>>
       \/ /\ pc' = "raised"
          /\ errors' = Raise("delete", DeleteTarget(work, idx))
          /\ UNCHANGED <<studies, report, idx>>
    /\ UNCHANGED <<work, details, target_id, anon_id, files, zipped>>
    /\ SeqFrame

\* delete_all_studies: the loop is over, the final message, return
delete_all_studies_done ==
    /\ fn = "delete_all_studies" /\ pc = "loop" /\ idx > Len(work)
    /\ pc' = "returned"
    /\ UNCHANGED <<work, report, errors, seqVars>>
    /\ SeqFrame

\* anon_study_server_to_local: c_find with the patient name filter
anon_find ==
    /\ fn = "anon_study_server_to_local" /\ pc = "call"
    /\ \/ /\ work' = found /\ idx' = 1 /\ pc' = "details" /\ errors' = errors
       \/ /\ pc' = "raised" /\ errors' = Raise("c_find", 0)
          /\ UNCHANGED <<work, idx>>
    /\ UNCHANGED <<report, studies, details, target_id, anon_id, deletes,
                   files, zipped>>
    /\ SeqFrame

\* anon_study_server_to_local: studies_details.append(get_study_details(id))
anon_details ==
    /\ fn = "anon_study_server_to_local" /\ pc = "details" /\ idx <= Len(work)
    /\ \/ /\ details' = Append(details, get_study_details(info[work[idx]]))
          /\ idx' = idx + 1
          /\ UNCHANGED <<pc, errors>>
       \/ /\ pc' = "raised" /\ errors' = Raise("details", work[idx])
          /\ UNCHANGED <<details, idx>>
    /\ UNCHANGED <<work, report, studies, target_id, anon_id, deletes, files,
                   zipped>>
    /\ SeqFrame

\* anon_study_server_to_local: the candidates are printed, the selection is
\* read, target_id = studies_ids[choice]
anon_choice ==
    /\ fn = "anon_study_server_to_local" /\ pc = "details" /\ idx > Len(work)
    /\ \E choice \in Choices :
          IF Index(work, choice) # 0
          THEN /\ target_id' = Index(work, choice)
               /\ pc' = "anonymize" /\ errors' = errors
          ELSE /\ pc' = "raised" /\ errors' = Raise("index", 0)
               /\ UNCHANGED target_id
    /\ UNCHANGED <<work, report, studies, idx, details, anon_id, deletes,
                   files, zipped>>
    /\ SeqFrame

\* anon_study_server_to_local: anonymize_study, anon_id = response["ID"];
\* the server stores the copy under an id no study has
anon_anonymize ==
    /\ fn = "anon_study_server_to_local" /\ pc = "anonymize"
    /\ \/ /\ \E new \in (1 .. (MaxStudies + 1)) \ studies :
                /\ anon_id' = new
                /\ studies' = studies \cup {new}
          /\ pc' = "open" /\ errors' = errors
       \/ /\ pc' = "raised" /\ errors' = Raise("anonymize", target_id)
          /\ UNCHANGED <<anon_id, studies>>
    /\ UNCHANGED <<work, report, idx, details, target_id, deletes, files, zipped>>
    /\ SeqFrame

\* anon_study_server_to_local: open(file_path, 'wb')
anon_open ==
    /\ fn = "anon_study_server_to_local" /\ pc = "open"
    /\ \/ /\ files' = files \cup {AnonPath}
          /\ pc' = "zip" /\ errors' = errors
       \/ /\ pc' = "raised" /\ errors' = Raise("io", anon_id)
          /\ UNCHANGED files
    /\ UNCHANGED <<work, report, studies, idx, details, target_id, anon_id,
                   deletes, zipped>>
    /\ SeqFrame

\* anon_study_server_to_local: get_study_zip_file(anon_id), write, close
anon_zip ==
    /\ fn = "anon_study_server_to_local" /\ pc = "zip"
    /\ \/ /\ zipped' = anon_id
          /\ pc' = "delete" /\ errors' = errors
       \/ /\ pc' = "raised" /\ errors' = Raise("zip", anon_id)
          /\ UNCHANGED zipped
    /\ UNCHANGED <<work, report, studies, idx, details, target_id, anon_id,
                   deletes, files>>
    /\ SeqFrame

\* deleting the selected study instead of its anonymized copy
DeleteSelected == target_id

\* the study anon_study_server_to_local deletes at its end
StudyToDelete == anon_id

\* anon_study_server_to_local: delete_study, the final message, return
anon_delete ==
    /\ fn = "anon_study_server_to_local" /\ pc = "delete"
    /\ deletes' = Append(deletes, StudyToDelete)
    /\ \/ /\ studies' = studies \ {StudyToDelete}
          /\ pc' = "returned" /\ errors' = errors
       \/ /\ pc' = "raised" /\ errors' = Raise("delete", StudyToDelete)
          /\ UNCHANGED studies
    /\ UNCHANGED <<work, report, idx, details, target_id, anon_id, files, zipped>>
    /\ SeqFrame

NextSeq ==
    \/ delete_all_studies_list
    \/ delete_all_studies_delete
    \/ delete_all_studies_done
    \/ anon_find
    \/ anon_details
    \/ anon_choice
    \/ anon_anonymize
    \/ anon_open
    \/ anon_zip
    \/ anon_delete

SpecSeq == InitSeq /\ [][NextSeq]_vars

-----------------------------------------------------------------------------
(* get_study_details on its own *)

Alphabet == {"S", Sep, "_"}
SmithJohn == <<"S", "m", "i", "t", "h", Sep, "J", "o", "h", "n">>
NameInputs ==
    UNION {[1 .. n -> Alphabet] : n \in 0 .. MaxNameLen} \cup {SmithJohn}

InitDetails ==
    /\ op = "get_study_details" /\ fn = op /\ pc = "call"
    /\ p_name_in \in NameInputs /\ time_in \in Times /\ date_in \in Dates
    /\ result = <<>>
    /\ found = <<>> /\ info = <<>>
    /\ NoRange /\ date = <<>> /\ threads_no = 0
    /\ NoWorkers /\ NoSeq

\* get_study_details: get_study_information, then the tuple
get_study_details_call ==
    /\ fn = "get_study_details" /\ pc = "call"
    /\ \/ /\ result' = get_study_details([PatientName |-> p_name_in,
                                          StudyTime |-> time_in,
                                          StudyDate |-> date_in])
          /\ pc' = "returned" /\ errors' = errors
       \/ /\ pc' = "raised" /\ errors' = Raise("not_found", 0)
          /\ UNCHANGED result
    /\ UNCHANGED <<argVars, fn, date, threads_no, query, work, started, joined,
                   wlist, wpos, wphase, wst, issued, completed, writes, report,
                   late, seqVars, p_name_in, time_in, date_in>>

NextDetails == get_study_details_call

SpecDetails == InitDetails /\ [][NextDetails]_vars

-----------------------------------------------------------------------------
(* Properties *)

RECURSIVE SumOver(_, _)
SumOver(f, S) ==
    IF S = {} THEN 0
    ELSE LET x == CHOOSE y \in S : TRUE IN f[x] + SumOver(f, S \ {x})
Total(f) == SumOver(f, DOMAIN f)

Started == 0 .. (started - 1)
AllStarted == pc \in {"join", "returned"}

\* C1: once upload_folder has started its n workers, every file of the list,
\* at position p (from 0), is in the list of worker p mod n, at position
\* p div n, and in no other place of any worker's list, and the workers hold
\* nothing but files of the list; when upload_folder returns and nothing has
\* failed, every file was uploaded by exactly one call, k calls in all.
C1_RoundRobinPartition ==
    (fn = "upload_folder" /\ AllStarted) =>
        /\ started = threads_no
        /\ \A p \in 1 .. Len(work) :
              \A w \in Started : \A j \in 1 .. MaxItems :
                 (j \in DOMAIN wlist[w] /\ wlist[w][j] = work[p])
                    <=> (w = (p - 1) % threads_no
                         /\ j = ((p - 1) \div threads_no) + 1)
        /\ \A w \in Started : Range(wlist[w]) \subseteq Range(work)
        /\ (pc = "returned" /\ errors = {}) =>
              /\ \A x \in Items :
                    issued[x] = IF x \in Range(work) THEN 1 ELSE 0
              /\ Total(issued) = Len(work)

C1_Witness ==
    /\ fn = "upload_folder" /\ pc = "returned" /\ errors = {}
    /\ Len(work) >= 3 /\ threads_no = 2

\* C8: the total that upload_folder reports is the number of files whose
\* upload call completed.
C8_ReportedTotalIsCompleted ==
    (fn = "upload_folder" /\ report # -1) => report = Total(completed)

\* C4: in upload_folder, date_server_to_local and date_modality_to_server,
\* any failure other than an unreachable target AE ends the operation with an
\* error: the operation does not return normally.
C4_FailuresPropagate ==
    (op \in BatchFns /\ \E e \in errors : e.kind # "unreachable")
        => pc # "returned"

\* C5: in date_modality_to_server a move that fails because the target AE is
\* unreachable does not end the worker that asked for it, and when nothing
\* else has failed every answer's move has been issued once the operation
\* returns.
C5_UnreachableSkipsOneAnswer ==
    (fn = "date_modality_to_server"
       /\ \A e \in errors : e.kind = "unreachable")
        => /\ \A w \in Workers : wst[w] # "failed"
           /\ pc = "returned" => \A x \in Range(work) : issued[x] = 1

\* C6: date_range_server_to_local(from_date, to_date, path, n) runs
\* date_server_to_local with the date "{from_date}-{to_date}" and n workers:
\* the same query, the same number of workers, the same slices.
C6_RangeIsSingleDate ==
    (op = "date_range_server_to_local" /\ fn = "date_server_to_local") =>
        /\ date = ComposeRange(from_date, to_date)
        /\ threads_no = thread_no
        /\ query # <<>> => query = ComposeRange(from_date, to_date)
        /\ AllStarted =>
              /\ started = thread_no
              /\ \A w \in 0 .. (thread_no - 1) :
                    wlist[w] = Slice(work, w, thread_no)

\* C9: in date_server_to_local no two workers open the same local file path.
C9_WorkersWriteDisjointFiles ==
    \A a, b \in writes : a.w # b.w => a.path # b.path

\* C10: a batch operation prints its final message and returns only when
\* every worker it started has ended; no worker takes a step after the
\* return; while a worker's remote call has not returned, the operation has
\* neither reported nor returned.
C10_ReturnAfterAllWorkers ==
    /\ (pc = "returned" \/ report # -1) =>
          /\ started = threads_no
          /\ \A w \in Started : wst[w] \in Terminated
    /\ ~late
    /\ (\E w \in Workers : wst[w] = "hung") => (pc # "returned" /\ report = -1)

C10_Witness ==
    /\ pc = "returned" /\ threads_no >= 2
    /\ \E w \in Started : Len(wlist[w]) >= 2 /\ wst[w] = "done"
    /\ \E w \in Started : wst[w] = "failed"

\* C2: when delete_all_studies returns, it has called delete_study once for
\* each study id of the initial enumeration, m calls for the m studies the
\* server held, and the server holds no study.
C2_DeleteAllStudies ==
    (op = "delete_all_studies" /\ pc = "returned") =>
        /\ deletes = found
        /\ Len(deletes) = Cardinality(Range(found))
        /\ \A x \in Range(found) :
              Cardinality({j \in DOMAIN deletes : deletes[j] = x}) = 1
        /\ studies = {}

C2_Witness ==
    op = "delete_all_studies" /\ pc = "returned" /\ Len(deletes) >= 2

\* C3: when anon_study_server_to_local returns, the anonymized copy is not
\* on the server (a lookup of its id finds nothing) and the file at the
\* download path exists and holds its zip; and whenever delete_study has been
\* called, the zip of the anonymized copy was already written to that file.
C3_AnonymizedCopyRemoved ==
    op = "anon_study_server_to_local" =>
        /\ pc = "returned" =>
              /\ anon_id # 0 /\ anon_id \notin studies
              /\ target_id \in Range(found)
              /\ AnonPath \in files /\ zipped = anon_id
              /\ deletes = <<anon_id>>
        /\ deletes # <<>> =>
              /\ AnonPath \in files /\ zipped = anon_id /\ zipped # 0

C3_Witness ==
    /\ op = "anon_study_server_to_local" /\ pc = "returned"
    /\ Len(found) >= 2 /\ studies # {}

\* the length of p without its trailing separators
CoreLen(p) ==
    CHOOSE n \in 0 .. Len(p) :
        /\ n = 0 \/ p[n] # Sep
        /\ \A j \in (n + 1) .. Len(p) : p[j] = Sep

\* C7: the name get_study_details returns is the remote PatientName without
\* its trailing separators and with an underscore in the place of every
\* other separator, so it holds no separator; "Smith^John" gives
\* "Smith_John"; StudyTime and StudyDate are returned as they are.
C7_NormalizedName ==
    (op = "get_study_details" /\ pc = "returned") =>
        /\ Len(result) = 3
        /\ Len(result[1]) = CoreLen(p_name_in)
        /\ \A j \in 1 .. Len(result[1]) :
              result[1][j] = IF p_name_in[j] = Sep THEN "_" ELSE p_name_in[j]
        /\ Sep \notin Range(result[1])
        /\ p_name_in = SmithJohn =>
              result[1] = <<"S", "m", "i", "t", "h", "_", "J", "o", "h", "n">>
        /\ result[2] = time_in
        /\ result[3] = date_in

C7_Witness ==
    /\ op = "get_study_details" /\ pc = "returned"
    /\ \/ p_name_in = SmithJohn
       \/ /\ Len(p_name_in) = MaxNameLen
          /\ p_name_in[Len(p_name_in)] = Sep /\ p_name_in[1] = Sep

=============================================================================
